---- MODULE Spec2Model ----
(***************************************************************************)
(* Appeal lifecycle of the student appeal manager server: the Appeal       *)
(* collection (models/Appeal.js), the role gates (middleware/auth.js) and  *)
(* the request handlers of routes/appeals.js, routes/reviewer.js,          *)
(* routes/admin.js and routes/users.js.                                    *)
(*                                                                         *)
(* A request is a process.  Its handler runs synchronously between two     *)
(* awaits, so one step of a request is everything up to its next database  *)
(* write: the first step is auth + role gate + validators + findById + the *)
(* handler's checks, every later step is one database write.  The early    *)
(* returns of a handler are the guard of its first step; the status code   *)
(* they answer with is the handler's ...Code operator (0: no early return).*)
(* A GET handler writes nothing: it is the operator that renders its body. *)
(*                                                                         *)
(* doc.save() sends the document's delta ($set of assigned paths, $push of *)
(* pushed array elements); findByIdAndUpdate(id, updates) sends $set of    *)
(* every key of updates, whole arrays included.                            *)
(***************************************************************************)
EXTENDS Integers, Sequences, FiniteSets, TLC

\* ---------------------------------------------------------------- bounds
MaxOps == 2        \* requests that reach a database write in one behaviour
MaxInFlight == 2   \* requests running concurrently
MaxAppeals == 2    \* documents the collection can hold
NumCodes == 2      \* size of the code space nano() draws from

\* ------------------------------------------------------- program constants
MaxAttempts == 5   \* probes of the pre-save hook
NanoSize == 6      \* characters of a nano() code

None == "none"

Users == {"s1", "s2", "r1", "r2", "a1"}

role(u) ==
  CASE u \in {"s1", "s2"} -> "student"
    [] u \in {"r1", "r2"} -> "reviewer"
    [] OTHER -> "admin"

Statuses ==
  {"submitted", "under review", "awaiting information", "decision made",
   "resolved", "rejected"}

Priorities == {"low", "medium", "high", "urgent"}

Outcomes == {"upheld", "partially upheld", "rejected", "withdrawn"}

Keys == 1..MaxAppeals
Slots == 1..MaxInFlight
Codes == 1..NumCodes
Alphabet == 0..9

NoAppeal == [appealId |-> 0]
NoDecision == [outcome |-> None, reason |-> None, decidedBy |-> None]
NoDate == 0
\* the appealId of a document that has none
NoId == [prefix |-> "", year |-> 0, code |-> << >>]

\* ------------------------------------------------------------- inputs
\* None is a field the request body omits
InStatus == {"submitted", "under review", "decision made", "resolved", "archived"}
InNotes == {"", "text"}
InPriority == {"high", "bogus"}
InReviewer == {"r1", "null", ""}
InAdmin == {"a1"}
InOutcome == {"upheld", "withdrawn", "maybe"}
InInternal == {None, "bool:true", "false"}
InDeadline == {NoDate, -1, 1}   \* days from now; NoDate: the body has none
\* a confirmation flag as the body carries it: a JSON boolean, or the string
\* of a multipart form field
InFlag == {"bool:true", "bool:false", "true", "false"}
InYear == {2025, 2026}       \* new Date().getFullYear()
\* Date.now().toString(): the decimal digits of the milliseconds clock
InNow == {<<1, 7, 9, 3, 6, 8, 0, 0, 0, 0, 0, 0, c>> : c \in Codes}

Optional(S) == {None} \cup S

\* the appealIds arrays sent to the bulk assignment: the empty array and
\* every array of distinct ids; an id of Keys without a document is the id
\* of an unknown appeal
InAppealIds ==
  {<< >>} \cup
  {s \in UNION {[1..n -> Keys] : n \in 1..MaxAppeals} :
     \A i, j \in DOMAIN s : i # j => s[i] # s[j]}

\* the bodies sent to PUT /api/appeals/:id
InUpdate ==
  {[status |-> "submitted", priority |-> None, assignedReviewer |-> None, assignedAdmin |-> None],
   [status |-> "resolved", priority |-> "high", assignedReviewer |-> None, assignedAdmin |-> None],
   [status |-> None, priority |-> None, assignedReviewer |-> "r1", assignedAdmin |-> "a1"],
   [status |-> "archived", priority |-> None, assignedReviewer |-> None, assignedAdmin |-> None],
   [status |-> None, priority |-> None, assignedReviewer |-> "null", assignedAdmin |-> None]}

VARIABLES
  appeals,   \* the Appeal collection: key -> document, NoAppeal when absent
  isActive,  \* the User collection: user -> isActive
  req,       \* the requests in flight: slot -> request
  nops       \* number of requests started that reached a database write

vars == <<appeals, isActive, req, nops>>

Idle == [pc |-> "idle"]

\* ------------------------------------------------------ middleware/auth.js
authAlways(u) == TRUE
auth(u) == isActive[u]

requireRoleAny(roles, u) == TRUE
requireRole(roles, u) == role(u) \in roles

requireStudent(u) == requireRole({"student"}, u)
requireAdmin(u) == requireRole({"admin"}, u)
requireReviewer(u) == requireRole({"reviewer"}, u)
requireAdminOrReviewer(u) == requireRole({"admin", "reviewer"}, u)

\* auth, then the role gate, then validationResult(req): the status code of
\* the first one that answers, 0 when the handler body runs
Gate(u, permitted, valid) ==
  IF ~auth(u) THEN 401
  ELSE IF ~permitted THEN 403
  ELSE IF ~valid THEN 400
  ELSE 0

\* ------------------------------------------------------------ the store
Exists(k) == appeals[k] # NoAppeal

\* Appeal.exists({ appealId: candidate })
existsAppealIdAlways(c) == TRUE
existsAppealId(c) == \E k \in Keys : Exists(k) /\ appeals[k].appealId = c

\* the unique index on appealId (unique: true): E11000 on a duplicate
DuplicateKeyNever(c) == FALSE
DuplicateKey(c) == existsAppealId(c)

\* customAlphabet("0123456789", 6): the draws considered are the codes
\* 00000c, c a digit of Codes
nano(c) == [i \in 1..NanoSize |-> IF i = NanoSize THEN c ELSE 0]

\* String.prototype.slice(-n): the last n characters, all of them when the
\* string is shorter
sliceLast5(str, n) == SubSeq(str, IF Len(str) > 5 THEN Len(str) - 4 ELSE 1, Len(str))
slice(str, n) == SubSeq(str, IF Len(str) > n THEN Len(str) - n + 1 ELSE 1, Len(str))

\* `APL-${year}-${code}`
candidate(year, code) == [prefix |-> "APL", year |-> year, code |-> code]

\* new Appeal({...}) with the schema defaults
NewAppeal(student, code, form) ==
  [appealId |-> code, student |-> student, studentId |-> form.studentId,
   declaration |-> form.declaration, deadlineCheck |-> form.deadlineCheck,
   confirmAll |-> form.confirmAll, status |-> "submitted",
   priority |-> "medium", assignedReviewer |-> None, assignedAdmin |-> None,
   decision |-> NoDecision, deadline |-> NoDate, timeline |-> << >>, notes |-> << >>]

EmptyFn == [x \in {} |-> None]

\* if (value) updates.field = value: nothing for an absent, null or empty one
Opt(field, value) == IF value \in {None, "null", ""} THEN EmptyFn ELSE field :> value

\* one MongoDB update: $set of the fields of upd.set, $push onto the arrays
\* of upd.push
ApplyUpdate(doc, upd) ==
  [f \in DOMAIN doc |->
     IF f \in DOMAIN upd.set THEN upd.set[f]
     ELSE IF f \in DOMAIN upd.push THEN doc[f] \o upd.push[f]
     ELSE doc[f]]

OnlySet(s) == [set |-> s, push |-> EmptyFn]
OnlyPush(p) == [set |-> EmptyFn, push |-> p]

\* a path assigned on a loaded document is sent by save() only when the
\* value differs from the loaded one
Changed(doc, field, value) == IF doc[field] = value THEN EmptyFn ELSE field :> value

\* a timeline entry; st is the status its description names, id its _id
Entry(action, u, st, id) == [action |-> action, by |-> u, st |-> st, id |-> id]
\* a note; id is its _id
Note(u, internal, id) == [author |-> u, isInternal |-> internal, id |-> id]

Range(s) == {s[i] : i \in DOMAIN s}

\* isMongoId(): the ids of the User collection are the well-formed ids here
isMongoId(x) == x \in Users

\* ------------------------------------------------------------ requests
rid == nops + 1

FreeSlot(q) ==
  /\ req[q] = Idle
  /\ \A p \in Slots : p < q => req[p] # Idle
  /\ nops < MaxOps

\* the handler has built its writes and awaits the first one; memNotes are
\* the notes of what a save() handler will render in its response
\* body is what the handler keeps of req.body beyond its writes
PendBody(q, u, op, k, upds, memNotes, body) ==
  /\ req' = [req EXCEPT ![q] =
       [pc |-> "save", op |-> op, user |-> u, key |-> k, rid |-> rid,
        upds |-> upds, memNotes |-> memNotes, i |-> 0,
        appealId |-> appeals[k].appealId, body |-> body]]
  /\ nops' = nops + 1
  /\ UNCHANGED <<appeals, isActive>>

Pend(q, u, op, k, upds, memNotes) == PendBody(q, u, op, k, upds, memNotes, None)

\* ------------------------------------------------- one database write
\* the next pending write of a request reaches the store; after the last
\* one the handler answers with success
\* the handlers that write with doc.save(); the others write with
\* findByIdAndUpdate, which runs no document middleware
SaveOps ==
  {"createAppeal", "reviewerStatus", "reviewerNote", "reviewerDecision",
   "reviewerRequestInfo", "appealNote", "appealDecision", "studentNote"}

\* the pre("save") hook on a save() of request r: the appealId values it may
\* assign, NoId when it returns early (if (this.appealId) return next())
preSaveAlways(r) == {candidate(year, nano(n)) : year \in InYear, n \in Codes}
preSave(r) ==
  IF r.op \notin SaveOps \/ r.appealId # NoId THEN {NoId}
  ELSE {candidate(year, nano(n)) : year \in InYear, n \in Codes}

WithId(upd, id) ==
  IF id = NoId THEN upd ELSE [upd EXCEPT !.set = ("appealId" :> id) @@ @]

\* the request after its last pending write: the handler answers, except
\* that the loop of a bulk assignment goes on to its next appealId
AfterSave(r) ==
  IF r.op = "adminBulkAssign" /\ r.todo # << >>
    THEN [r EXCEPT !.pc = "find", !.upds = << >>, !.results = Append(@, r.key)]
    ELSE Idle

Save(q) ==
  /\ req[q] # Idle
  /\ req[q].pc = "save"
  /\ LET r == req[q] IN
     \E id \in preSave(r) :
       /\ appeals' = [appeals EXCEPT ![r.key] = ApplyUpdate(@, WithId(Head(r.upds), id))]
       /\ req' = [req EXCEPT ![q] =
            IF Len(r.upds) = 1 THEN AfterSave(r) ELSE [@ EXCEPT !.upds = Tail(@)]]
  /\ UNCHANGED <<isActive, nops>>

\* the store rejects the pending write of a request: save() or
\* findByIdAndUpdate rejects, the catch block of the handler answers 500 and
\* the writes still pending are never sent.  The catch inside the loop of a
\* bulk assignment records the error and the loop goes on
SaveFails(q) ==
  /\ req[q] # Idle
  /\ req[q].pc = "save"
  /\ LET r == req[q] IN
     req' = [req EXCEPT ![q] =
       IF r.op = "adminBulkAssign" /\ r.todo # << >>
         THEN [r EXCEPT !.pc = "find", !.upds = << >>, !.errors = Append(@, r.key)]
         ELSE Idle]
  /\ UNCHANGED <<appeals, isActive, nops>>

\* --------------------------------------- routes/appeals.js: POST /api/appeals
InFlightCreates ==
  Cardinality({q \in Slots : req[q] # Idle /\ req[q].pc \in {"probe", "insert"}})
Stored == Cardinality({k \in Keys : Exists(k)})

\* the student id registered for a principal (req.user.studentId)
studentIdOf(u) == u

\* the custom validator of the three flags: true for true and "true"; it
\* returns false for false and "false", which fails the field as well
isFlagAny(value) == value \in InFlag
isFlag(value) == value \in {"bool:true", "true"}

\* !value of the handler: every non-empty string is truthy
truthy(value) == value \notin {"bool:false", ""}

\* const { x = d } = req.body: the default stands in for an absent field
orDefault(value, default) == IF value = None THEN default ELSE value

\* the cast of a Boolean path of the schema
castBoolean(value) == value \in {"bool:true", "true"}

CreateAppealCode(u, declaration, deadlineCheck, confirmAll, studentId) ==
  LET g == Gate(u, requireStudent(u),
             /\ isFlag(declaration) /\ isFlag(deadlineCheck) /\ isFlag(confirmAll)
             /\ studentId # "")
  IN
  IF g # 0 THEN g
  ELSE IF ~truthy(declaration) \/ ~truthy(deadlineCheck) \/ ~truthy(confirmAll) THEN 400
  ELSE IF studentId # studentIdOf(u) THEN 400
  ELSE 0

\* up to the first await of appeal.save(): the pre-save hook's first probe
CreateAppeal ==
  \E q \in Slots :
    /\ FreeSlot(q)
    /\ Stored + InFlightCreates < MaxAppeals
    /\ \E u \in Users, declaration \in InFlag, deadlineCheck \in InFlag,
          confirmAll \in InFlag, studentId \in {"s1", "s2"}, year \in InYear :
         /\ CreateAppealCode(u, declaration, deadlineCheck, confirmAll, studentId) = 0
         /\ req' = [req EXCEPT ![q] =
              [pc |-> "probe", op |-> "createAppeal", user |-> u, key |-> 0,
               rid |-> rid, upds |-> << >>, memNotes |-> {}, i |-> 0, appealId |-> NoId,
               year |-> year,
               form |-> [declaration |-> castBoolean(declaration),
                         deadlineCheck |-> castBoolean(deadlineCheck),
                         confirmAll |-> castBoolean(confirmAll),
                         studentId |-> studentId]]]
         /\ nops' = nops + 1
         /\ UNCHANGED <<appeals, isActive>>

\* ------------------------------------ models/Appeal.js: pre("save") hook
\* one iteration of the probe loop: a candidate from nano(), one exists()
\* query; after the last colliding probe the timestamp fallback is taken
\* without a query
PreSaveProbeUnset(q) ==
  /\ req[q] # Idle
  /\ req[q].pc = "probe"
  /\ req' = [req EXCEPT ![q] = [@ EXCEPT !.pc = "insert"]]
  /\ UNCHANGED <<appeals, isActive, nops>>
PreSaveProbe(q) ==
  /\ req[q] # Idle
  /\ req[q].pc = "probe"
  /\ \/ \E n \in Codes, now \in InNow :
          req' = [req EXCEPT ![q] =
            IF ~existsAppealId(candidate(req[q].year, nano(n)))
              THEN [@ EXCEPT !.appealId = candidate(req[q].year, nano(n)), !.pc = "insert"]
            ELSE IF @.i + 1 < MaxAttempts
              THEN [@ EXCEPT !.i = @ + 1]
            ELSE [@ EXCEPT !.appealId = candidate(req[q].year, slice(now, 6)),
                           !.pc = "insert", !.i = @ + 1]]
     \* the exists() query rejects: the catch block passes the error to
     \* next(), save() rejects and the handler answers 500
     \/ req' = [req EXCEPT ![q] = Idle]
  /\ UNCHANGED <<appeals, isActive, nops>>

FreshKey == CHOOSE k \in Keys : ~Exists(k) /\ \A j \in Keys : j < k => Exists(j)

\* the insert of the first appeal.save(): refused by the unique index (the
\* handler answers 500), or stored; the handler then pushes the "Appeal
\* submitted" entry and awaits the second save
InsertAppeal(q) ==
  /\ req[q] # Idle
  /\ req[q].pc = "insert"
  /\ LET r == req[q] IN
     IF DuplicateKey(r.appealId)
       THEN /\ req' = [req EXCEPT ![q] = Idle]
            /\ UNCHANGED <<appeals, isActive, nops>>
       ELSE /\ appeals' = [appeals EXCEPT ![FreshKey] = NewAppeal(r.user, r.appealId, r.form)]
            /\ req' = [req EXCEPT ![q] =
                 [@ EXCEPT !.pc = "save", !.key = FreshKey,
                    !.upds = << OnlyPush("timeline" :>
                        << Entry("Appeal submitted", r.user, None, r.rid) >>) >>]]
            /\ UNCHANGED <<isActive, nops>>


\* ------------------------------------------------------ routes/reviewer.js
\* appeal.assignedReviewer && appeal.assignedReviewer !== req.user._id
AssignedToOther(doc, u) == doc.assignedReviewer # None /\ doc.assignedReviewer # u

\* the isIn([...]) list of PUT /api/reviewer/appeals/:id/status
ReviewerStatuses == Statuses \ {"submitted"}

\* findById, the 404 and the assignment check of the four reviewer handlers
ReviewerAccess(u, k, valid) ==
  LET g == Gate(u, requireReviewer(u), valid) IN
  IF g # 0 THEN g
  ELSE IF ~Exists(k) THEN 404
  ELSE IF AssignedToOther(appeals[k], u) THEN 403
  ELSE 0

\* PUT /api/reviewer/appeals/:id/status
ReviewerStatusCode(u, k, status) == ReviewerAccess(u, k, status \in ReviewerStatuses)

ReviewerStatus ==
  \E q \in Slots :
    /\ FreeSlot(q)
    /\ \E u \in Users, k \in Keys, status \in InStatus, notes \in InNotes :
         /\ ReviewerStatusCode(u, k, status) = 0
         /\ LET doc == appeals[k]
                n == Note(u, TRUE, rid)
            IN
            Pend(q, u, "reviewerStatus", k,
              << [set |-> Changed(doc, "status", status),
                  push |-> ("timeline" :> << Entry("Status updated", u, status, rid) >>)
                           @@ (IF notes # "" THEN "notes" :> << n >> ELSE EmptyFn)] >>,
              Range(doc.notes) \cup (IF notes # "" THEN {n} ELSE {}))

\* POST /api/reviewer/appeals/:id/notes: two saves
ReviewerNoteCode(u, k, content) == ReviewerAccess(u, k, content # "")

\* const { content, isInternal = true } = req.body; the note pushed
ReviewerNoteEntry(u, isInternal, id) ==
  Note(u, castBoolean(orDefault(isInternal, "bool:true")), id)

ReviewerNote ==
  \E q \in Slots :
    /\ FreeSlot(q)
    /\ \E u \in Users, k \in Keys, content \in InNotes, isInternal \in InInternal :
         /\ ReviewerNoteCode(u, k, content) = 0
         /\ LET n == ReviewerNoteEntry(u, isInternal, rid) IN
            PendBody(q, u, "reviewerNote", k,
              << OnlyPush("notes" :> << n >>),
                 OnlyPush("timeline" :> << Entry("Note added", u, None, rid) >>) >>,
              {n}, isInternal)

\* PUT /api/reviewer/appeals/:id/decision
ReviewerDecisionCodeOnce(u, k, outcome, reason) ==
  LET c == ReviewerAccess(u, k, outcome \in Outcomes /\ reason # "") IN
  IF c = 0 /\ appeals[k].decision # NoDecision THEN 409 ELSE c
ReviewerDecisionCode(u, k, outcome, reason) ==
  ReviewerAccess(u, k, outcome \in Outcomes /\ reason # "")

ReviewerDecisionStatusOnly ==
  \E q \in Slots :
    /\ FreeSlot(q)
    /\ \E u \in Users, k \in Keys, outcome \in InOutcome, reason \in InNotes :
         /\ ReviewerDecisionCode(u, k, outcome, reason) = 0
         /\ LET doc == appeals[k]
                status == IF outcome = "withdrawn" THEN "resolved" ELSE "decision made"
            IN
            Pend(q, u, "reviewerDecision", k,
              << [set |-> Changed(doc, "status", status),
                  push |-> "timeline" :> << Entry("Decision made", u, status, rid) >>] >>,
              Range(doc.notes))
ReviewerDecision ==
  \E q \in Slots :
    /\ FreeSlot(q)
    /\ \E u \in Users, k \in Keys, outcome \in InOutcome, reason \in InNotes :
         /\ ReviewerDecisionCode(u, k, outcome, reason) = 0
         /\ LET doc == appeals[k]
                status == IF outcome = "withdrawn" THEN "resolved" ELSE "decision made"
            IN
            Pend(q, u, "reviewerDecision", k,
              << [set |-> ("decision" :> [outcome |-> outcome, reason |-> reason,
                                          decidedBy |-> u])
                          @@ Changed(doc, "status", status),
                  push |-> "timeline" :> << Entry("Decision made", u, status, rid) >>] >>,
              Range(doc.notes))

\* PUT /api/reviewer/appeals/:id/request-info
ReviewerRequestInfoCode(u, k, requestDetails) ==
  ReviewerAccess(u, k, requestDetails # "")

ReviewerRequestInfo ==
  \E q \in Slots :
    /\ FreeSlot(q)
    /\ \E u \in Users, k \in Keys, requestDetails \in InNotes, deadline \in InDeadline :
         /\ ReviewerRequestInfoCode(u, k, requestDetails) = 0
         /\ LET doc == appeals[k] IN
            Pend(q, u, "reviewerRequestInfo", k,
              << [set |-> Changed(doc, "status", "awaiting information")
                          @@ (IF deadline # NoDate THEN Changed(doc, "deadline", deadline)
                              ELSE EmptyFn),
                  push |-> "timeline" :>
                    << Entry("Information requested", u, "awaiting information", rid) >>] >>,
              Range(doc.notes))

\* ------------------- unnamed/part_003: the other build of the reviewer router
\* !appeal.assignedReviewer || appeal.assignedReviewer !== req.user._id
NotAssignedTo(doc, u) == doc.assignedReviewer = None \/ doc.assignedReviewer # u

\* findById, the 404 and the assignment check of its status and decision
\* handlers
Part003Access(u, k, valid) ==
  LET g == Gate(u, requireReviewer(u), valid) IN
  IF g # 0 THEN g
  ELSE IF ~Exists(k) THEN 404
  ELSE IF NotAssignedTo(appeals[k], u) THEN 403
  ELSE 0

\* PUT /api/reviewer/appeals/:id/status
Part003StatusCode(u, k, status) == Part003Access(u, k, status \in ReviewerStatuses)

Part003Status ==
  \E q \in Slots :
    /\ FreeSlot(q)
    /\ \E u \in Users, k \in Keys, status \in InStatus, notes \in InNotes :
         /\ Part003StatusCode(u, k, status) = 0
         /\ LET doc == appeals[k]
                n == Note(u, TRUE, rid)
            IN
            Pend(q, u, "reviewerStatus", k,
              << [set |-> Changed(doc, "status", status),
                  push |-> ("timeline" :> << Entry("Status updated", u, status, rid) >>)
                           @@ (IF notes # "" THEN "notes" :> << n >> ELSE EmptyFn)] >>,
              Range(doc.notes) \cup (IF notes # "" THEN {n} ELSE {}))

\* POST /api/reviewer/appeals/:id/notes: the assignment check of this
\* handler lets an unassigned appeal through; two saves
Part003NoteCode(u, k, content) == ReviewerAccess(u, k, content # "")

Part003Note ==
  \E q \in Slots :
    /\ FreeSlot(q)
    /\ \E u \in Users, k \in Keys, content \in InNotes, isInternal \in InInternal :
         /\ Part003NoteCode(u, k, content) = 0
         /\ LET n == ReviewerNoteEntry(u, isInternal, rid) IN
            PendBody(q, u, "reviewerNote", k,
              << OnlyPush("notes" :> << n >>),
                 OnlyPush("timeline" :> << Entry("Note added", u, None, rid) >>) >>,
              {n}, isInternal)

\* PUT /api/reviewer/appeals/:id/decision: status "decision made" for every
\* outcome
Part003DecisionCode(u, k, outcome, reason) ==
  Part003Access(u, k, outcome \in Outcomes /\ reason # "")

Part003Decision ==
  \E q \in Slots :
    /\ FreeSlot(q)
    /\ \E u \in Users, k \in Keys, outcome \in InOutcome, reason \in InNotes :
         /\ Part003DecisionCode(u, k, outcome, reason) = 0
         /\ LET doc == appeals[k] IN
            Pend(q, u, "reviewerDecision", k,
              << [set |-> ("decision" :> [outcome |-> outcome, reason |-> reason,
                                          decidedBy |-> u])
                          @@ Changed(doc, "status", "decision made"),
                  push |-> "timeline" :>
                    << Entry("Decision made", u, "decision made", rid) >>] >>,
              Range(doc.notes))

\* --------------------------------------------------------- routes/admin.js
\* the gate, findById and the 404 of the admin handlers
AdminAccess(u, k, valid) ==
  LET g == Gate(u, requireAdmin(u), valid) IN
  IF g # 0 THEN g
  ELSE IF ~Exists(k) THEN 404
  ELSE 0

\* PUT /api/admin/appeals/:id/assign
AdminAssignCodeNullable(u, k, assignedReviewer, assignedAdmin, priority) ==
  AdminAccess(u, k,
    /\ assignedReviewer \in {None, "null", ""} \/ isMongoId(assignedReviewer)
    /\ assignedAdmin \in {None, "null", ""} \/ isMongoId(assignedAdmin)
    /\ priority = None \/ priority \in Priorities)
AdminAssignCode(u, k, assignedReviewer, assignedAdmin, priority) ==
  AdminAccess(u, k,
    /\ assignedReviewer = None \/ isMongoId(assignedReviewer)
    /\ assignedAdmin = None \/ isMongoId(assignedAdmin)
    /\ priority = None \/ priority \in Priorities)

AdminAssign ==
  \E q \in Slots :
    /\ FreeSlot(q)
    /\ \E u \in Users, k \in Keys, assignedReviewer \in Optional(InReviewer),
          assignedAdmin \in Optional(InAdmin), priority \in Optional(InPriority) :
         /\ AdminAssignCode(u, k, assignedReviewer, assignedAdmin, priority) = 0
         /\ PendBody(q, u, "adminAssign", k,
              << OnlySet(Opt("assignedReviewer", assignedReviewer)
                         @@ Opt("assignedAdmin", assignedAdmin)
                         @@ Opt("priority", priority)
                         @@ ("timeline" :> appeals[k].timeline
                               \o << Entry("Appeal assigned", u, None, rid) >>)) >>,
              {},
              [assignedReviewer |-> assignedReviewer, assignedAdmin |-> assignedAdmin,
               priority |-> priority])

\* PUT /api/admin/appeals/:id/priority
AdminPriorityCode(u, k, priority) == AdminAccess(u, k, priority \in Priorities)

AdminPriorityNoEntry ==
  \E q \in Slots :
    /\ FreeSlot(q)
    /\ \E u \in Users, k \in Keys, priority \in InPriority :
         /\ AdminPriorityCode(u, k, priority) = 0
         /\ Pend(q, u, "adminPriority", k, << OnlySet("priority" :> priority) >>, {})
AdminPriority ==
  \E q \in Slots :
    /\ FreeSlot(q)
    /\ \E u \in Users, k \in Keys, priority \in InPriority :
         /\ AdminPriorityCode(u, k, priority) = 0
         /\ Pend(q, u, "adminPriority", k,
              << OnlySet(("priority" :> priority)
                         @@ ("timeline" :> appeals[k].timeline
                               \o << Entry("Priority updated", u, None, rid) >>)) >>,
              {})

\* PUT /api/admin/appeals/:id/status
AdminStatusCode(u, k, status) == AdminAccess(u, k, status \in Statuses)

AdminStatus ==
  \E q \in Slots :
    /\ FreeSlot(q)
    /\ \E u \in Users, k \in Keys, status \in InStatus, notes \in InNotes :
         /\ AdminStatusCode(u, k, status) = 0
         /\ Pend(q, u, "adminStatus", k,
              << OnlySet(("status" :> status)
                         @@ ("timeline" :> appeals[k].timeline
                               \o << Entry("Status updated", u, status, rid) >>)
                         @@ (IF notes # ""
                               THEN "notes" :> appeals[k].notes \o << Note(u, TRUE, rid) >>
                               ELSE EmptyFn)) >>,
              {})

\* POST /api/admin/appeals/:id/notes
AdminNoteCode(u, k, content) == AdminAccess(u, k, content # "")

\* const { content, isInternal = true } = req.body; the noteEntry
AdminNoteEntry(u, isInternal, id) ==
  Note(u, castBoolean(orDefault(isInternal, "bool:true")), id)

AdminNote ==
  \E q \in Slots :
    /\ FreeSlot(q)
    /\ \E u \in Users, k \in Keys, content \in InNotes, isInternal \in InInternal :
         /\ AdminNoteCode(u, k, content) = 0
         /\ LET n == AdminNoteEntry(u, isInternal, rid) IN
            PendBody(q, u, "adminNote", k,
              << OnlySet(("notes" :> appeals[k].notes \o << n >>)
                         @@ ("timeline" :> appeals[k].timeline
                               \o << Entry("Admin note added", u, None, rid) >>)) >>,
              {}, isInternal)

\* POST /api/admin/appeals/bulk-assign
AdminBulkAssignCode(u, appealIds, assignedReviewer, assignedAdmin, priority) ==
  Gate(u, requireAdmin(u),
    /\ Len(appealIds) >= 1
    /\ \A i \in DOMAIN appealIds : appealIds[i] \in Keys
    /\ assignedReviewer = None \/ isMongoId(assignedReviewer)
    /\ assignedAdmin = None \/ isMongoId(assignedAdmin)
    /\ priority = None \/ priority \in Priorities)

\* up to the first findById of the loop; todo are the appealIds the loop has
\* not reached, results and errors the two lists of the response
AdminBulkAssign ==
  \E q \in Slots :
    /\ FreeSlot(q)
    /\ \E u \in Users, appealIds \in InAppealIds, assignedReviewer \in Optional(InReviewer),
          assignedAdmin \in Optional(InAdmin), priority \in Optional(InPriority) :
         /\ AdminBulkAssignCode(u, appealIds, assignedReviewer, assignedAdmin, priority) = 0
         /\ req' = [req EXCEPT ![q] =
              [pc |-> "find", op |-> "adminBulkAssign", user |-> u, key |-> 0,
               rid |-> rid, upds |-> << >>, memNotes |-> {}, i |-> 0, appealId |-> NoId,
               body |-> [appealIds |-> appealIds, assignedReviewer |-> assignedReviewer,
                         assignedAdmin |-> assignedAdmin, priority |-> priority],
               todo |-> appealIds, results |-> << >>, errors |-> << >>]]
         /\ nops' = nops + 1
         /\ UNCHANGED <<appeals, isActive>>

\* one findById of the loop: an unknown appeal goes to the errors and the
\* loop continues; a found one gets its updates built, with the timeline as
\* read, and awaits findByIdAndUpdate.  After the last appealId the handler
\* answers with both lists
BulkFindAbort(q) ==
  /\ req[q] # Idle
  /\ req[q].pc = "find"
  /\ LET r == req[q]
         id == Head(r.todo)
     IN
     req' = [req EXCEPT ![q] =
       IF ~Exists(id) THEN Idle
       ELSE [r EXCEPT !.pc = "save", !.key = id, !.todo = Tail(@),
               !.upds = << OnlySet(Opt("assignedReviewer", r.body.assignedReviewer)
                              @@ Opt("assignedAdmin", r.body.assignedAdmin)
                              @@ Opt("priority", r.body.priority)
                              @@ ("timeline" :> appeals[id].timeline
                                    \o << Entry("Bulk assignment", r.user, None, r.rid) >>)) >>]]
  /\ UNCHANGED <<appeals, isActive, nops>>
BulkFind(q) ==
  /\ req[q] # Idle
  /\ req[q].pc = "find"
  /\ LET r == req[q]
         id == Head(r.todo)
     IN
     req' = [req EXCEPT ![q] =
       IF ~Exists(id)
         THEN IF Len(r.todo) = 1 THEN Idle
              ELSE [r EXCEPT !.todo = Tail(@), !.errors = Append(@, id)]
       ELSE [r EXCEPT !.pc = "save", !.key = id, !.todo = Tail(@),
               !.upds = << OnlySet(Opt("assignedReviewer", r.body.assignedReviewer)
                              @@ Opt("assignedAdmin", r.body.assignedAdmin)
                              @@ Opt("priority", r.body.priority)
                              @@ ("timeline" :> appeals[id].timeline
                                    \o << Entry("Bulk assignment", r.user, None, r.rid) >>)) >>]]
  /\ UNCHANGED <<appeals, isActive, nops>>

\* the results and the errors of the response, at the step that answers
BulkAnswer(r) ==
  IF r.pc = "save"
    THEN [results |-> Append(r.results, r.key), errors |-> r.errors]
    ELSE [results |-> r.results, errors |-> Append(r.errors, Head(r.todo))]

\* ------------------------- routes/appeals.js, the admin/reviewer surface
\* PUT /api/appeals/:id
AppealUpdateCode(u, k, b) ==
  LET g == Gate(u, requireAdminOrReviewer(u),
             /\ b.status = None \/ b.status \in Statuses
             /\ b.priority = None \/ b.priority \in Priorities
             /\ b.assignedReviewer = None \/ isMongoId(b.assignedReviewer)
             /\ b.assignedAdmin = None \/ isMongoId(b.assignedAdmin))
  IN
  IF g # 0 THEN g
  ELSE IF ~Exists(k) THEN 404
  ELSE 0

AppealUpdate ==
  \E q \in Slots :
    /\ FreeSlot(q)
    /\ \E u \in Users, k \in Keys, b \in InUpdate :
         /\ AppealUpdateCode(u, k, b) = 0
         /\ Pend(q, u, "appealUpdate", k,
              << OnlySet(Opt("status", b.status)
                         @@ Opt("priority", b.priority)
                         @@ Opt("assignedReviewer", b.assignedReviewer)
                         @@ Opt("assignedAdmin", b.assignedAdmin)
                         @@ ("timeline" :> appeals[k].timeline
                               \o << Entry("Appeal updated", u, b.status, rid) >>)) >>,
              {})

\* POST /api/appeals/:id/notes, any role: two saves
AppealNoteCodeAnyVisibility(u, k, content, isInternal) ==
  LET g == Gate(u, TRUE, content # "") IN
  IF g # 0 THEN g
  ELSE IF ~Exists(k) THEN 404
  ELSE IF role(u) = "student" /\ appeals[k].student # u THEN 403
  ELSE 0
AppealNoteCode(u, k, content, isInternal) ==
  LET g == Gate(u, TRUE, content # "") IN
  IF g # 0 THEN g
  ELSE IF ~Exists(k) THEN 404
  ELSE IF role(u) = "student" /\ appeals[k].student # u THEN 403
  ELSE IF role(u) = "student" /\ truthy(orDefault(isInternal, "bool:false")) THEN 403
  ELSE 0

\* const { content, isInternal = false } = req.body; the note pushed
AppealNoteEntry(u, isInternal, id) ==
  Note(u, castBoolean(orDefault(isInternal, "bool:false")), id)

AppealNote ==
  \E q \in Slots :
    /\ FreeSlot(q)
    /\ \E u \in Users, k \in Keys, content \in InNotes, isInternal \in InInternal :
         /\ AppealNoteCode(u, k, content, isInternal) = 0
         /\ LET n == AppealNoteEntry(u, isInternal, rid) IN
            PendBody(q, u, "appealNote", k,
              << OnlyPush("notes" :> << n >>),
                 OnlyPush("timeline" :> << Entry("Note added", u, None, rid) >>) >>,
              {n}, isInternal)

\* PUT /api/appeals/:id/decision
AppealDecisionCode(u, k, outcome, reason) ==
  LET g == Gate(u, requireAdminOrReviewer(u), outcome \in Outcomes /\ reason # "") IN
  IF g # 0 THEN g
  ELSE IF ~Exists(k) THEN 404
  ELSE IF AssignedToOther(appeals[k], u) THEN 403
  ELSE 0

AppealDecision ==
  \E q \in Slots :
    /\ FreeSlot(q)
    /\ \E u \in Users, k \in Keys, outcome \in InOutcome, reason \in InNotes :
         /\ AppealDecisionCode(u, k, outcome, reason) = 0
         /\ LET doc == appeals[k] IN
            Pend(q, u, "appealDecision", k,
              << [set |-> ("decision" :> [outcome |-> outcome, reason |-> reason,
                                          decidedBy |-> u])
                          @@ Changed(doc, "status", "decision made"),
                  push |-> "timeline" :>
                    << Entry("Decision made", u, "decision made", rid) >>] >>,
              Range(doc.notes))

\* ------------------------------ routes/appeals.js, the student surface
\* POST /api/appeals/:id/notes: findOne({_id, student}), two saves
StudentNoteCode(u, k, content) ==
  LET g == Gate(u, requireStudent(u), content # "") IN
  IF g # 0 THEN g
  ELSE IF ~(Exists(k) /\ appeals[k].student = u) THEN 404
  ELSE 0

StudentNote ==
  \E q \in Slots :
    /\ FreeSlot(q)
    /\ \E u \in Users, k \in Keys, content \in InNotes :
         /\ StudentNoteCode(u, k, content) = 0
         /\ LET n == Note(u, FALSE, rid) IN
            Pend(q, u, "studentNote", k,
              << OnlyPush("notes" :> << n >>),
                 OnlyPush("timeline" :> << Entry("Note added", u, None, rid) >>) >>,
              {n})

\* notes.filter((note) => !note.isInternal)
FilterInternal(notes) == {n \in notes : ~n.isInternal}

NotesOf(ks) == UNION {Range(appeals[k].notes) : k \in ks}

\* GET /api/appeals: the notes in the body, the student's own appeals as stored
StudentListCode(u) == Gate(u, requireStudent(u), TRUE)
StudentList(u) == NotesOf({k \in Keys : Exists(k) /\ appeals[k].student = u})

\* GET /api/appeals/:id: findOne({_id, student}); the evidence access
\* precedes the null check, so a miss ends in the catch block
StudentGetCode(u, k) ==
  LET g == Gate(u, requireStudent(u), TRUE) IN
  IF g # 0 THEN g
  ELSE IF ~(Exists(k) /\ appeals[k].student = u) THEN 500
  ELSE 200
StudentGet(u, k) == FilterInternal(Range(appeals[k].notes))

\* ------------------- routes/appeals.js, the role-switched read surface
\* GET /api/appeals/:id
AppealGetCode(u, k) ==
  LET g == Gate(u, TRUE, TRUE) IN
  IF g # 0 THEN g
  ELSE IF ~Exists(k) THEN 404
  ELSE IF role(u) = "student" /\ appeals[k].student # u THEN 403
  ELSE 200
AppealGet(u, k) == Range(appeals[k].notes)

\* GET /api/appeals
AppealListCode(u) == Gate(u, TRUE, TRUE)
AppealList(u) ==
  NotesOf({k \in Keys :
    /\ Exists(k)
    /\ CASE role(u) = "student" -> appeals[k].student = u
         [] role(u) = "reviewer" -> appeals[k].assignedReviewer \in {u, None}
         [] OTHER -> TRUE})

\* ---------------------------------------------------------- routes/users.js
\* GET /api/users/:id/appeals
UserAppealsCode(u, id) ==
  LET g == Gate(u, TRUE, TRUE) IN
  IF g # 0 THEN g
  ELSE IF role(u) = "student" /\ u # id THEN 403
  ELSE 200
UserAppeals(u, id) == NotesOf({k \in Keys : Exists(k) /\ appeals[k].student = id})

\* the ids sent as :id of a user route; "nobody" is the id of no user
InUserId == Users \cup {"nobody"}

\* a user route answers after one write of the User collection whose value
\* does not depend on what the handler read: its findById, its checks and
\* its user.save() are one step

\* DELETE /api/admin/users/:id
AdminDeleteUserCode(u, id) ==
  LET g == Gate(u, requireAdmin(u), TRUE) IN
  IF g # 0 THEN g
  ELSE IF id \notin Users THEN 404
  ELSE IF id = u THEN 400
  ELSE 0

AdminDeleteUserAborts ==
  /\ nops < MaxOps
  /\ \E u \in Users, id \in InUserId :
       /\ AdminDeleteUserCode(u, id) = 0
       /\ isActive' = [isActive EXCEPT ![id] = FALSE]
       /\ req' = [q \in Slots |->
            IF req[q] # Idle /\ req[q].user = id THEN Idle ELSE req[q]]
  /\ nops' = nops + 1
  /\ UNCHANGED appeals
AdminDeleteUser ==
  /\ nops < MaxOps
  /\ \E u \in Users, id \in InUserId :
       /\ AdminDeleteUserCode(u, id) = 0
       /\ isActive' = [isActive EXCEPT ![id] = FALSE]
  /\ nops' = nops + 1
  /\ UNCHANGED <<appeals, req>>

\* Appeal.countDocuments({ student, status: { $in: [...] } })
activeAppeals(id) ==
  Cardinality({k \in Keys :
    /\ Exists(k)
    /\ appeals[k].student = id
    /\ appeals[k].status \in {"submitted", "under review", "awaiting information"}})

\* DELETE /api/users/:id
UsersDeleteCode(u, id) ==
  LET g == Gate(u, requireAdmin(u), TRUE) IN
  IF g # 0 THEN g
  ELSE IF id \notin Users THEN 404
  ELSE IF activeAppeals(id) > 0 THEN 400
  ELSE 0

UsersDeleteCascade ==
  /\ nops < MaxOps
  /\ \E u \in Users, id \in InUserId :
       /\ UsersDeleteCode(u, id) = 0
       /\ isActive' = [isActive EXCEPT ![id] = FALSE]
       /\ appeals' = [k \in Keys |->
            IF Exists(k) /\ appeals[k].student = id THEN NoAppeal ELSE appeals[k]]
  /\ nops' = nops + 1
  /\ UNCHANGED req
UsersDelete ==
  /\ nops < MaxOps
  /\ \E u \in Users, id \in InUserId :
       /\ UsersDeleteCode(u, id) = 0
       /\ isActive' = [isActive EXCEPT ![id] = FALSE]
  /\ nops' = nops + 1
  /\ UNCHANGED <<appeals, req>>

\* PUT /api/users/:id/activate
UsersActivateCode(u, id) ==
  LET g == Gate(u, requireAdmin(u), TRUE) IN
  IF g # 0 THEN g
  ELSE IF id \notin Users THEN 404
  ELSE IF isActive[id] THEN 400
  ELSE 0

UsersActivate ==
  /\ nops < MaxOps
  /\ \E u \in Users, id \in InUserId :
       /\ UsersActivateCode(u, id) = 0
       /\ isActive' = [isActive EXCEPT ![id] = TRUE]
  /\ nops' = nops + 1
  /\ UNCHANGED <<appeals, req>>

\* ------------------------------------------------------- specifications
\* the collection after one student has filed an appeal
Filed ==
  NewAppeal("s1", candidate(2026, nano(1)),
    [declaration |-> TRUE, deadlineCheck |-> TRUE, confirmAll |-> TRUE,
     studentId |-> studentIdOf("s1")])

Init ==
  /\ appeals = [k \in Keys |->
       IF k = 1
         THEN [Filed EXCEPT !.timeline = << Entry("Appeal submitted", "s1", None, 0) >>]
         ELSE NoAppeal]
  /\ isActive = [u \in Users |-> TRUE]
  /\ req = [q \in Slots |-> Idle]
  /\ nops = 0

\* the requests on stored appeals
Next ==
  \/ \E q \in Slots : Save(q)
  \/ ReviewerStatus
  \/ ReviewerNote
  \/ ReviewerDecision
  \/ ReviewerRequestInfo
  \/ AdminAssign
  \/ AdminPriority
  \/ AdminStatus
  \/ AdminNote
  \/ AppealUpdate
  \/ AppealNote
  \/ AppealDecision
  \/ StudentNote
  \/ AdminBulkAssign
  \/ \E q \in Slots : BulkFind(q)
  \/ AdminDeleteUser
  \/ UsersDelete
  \/ UsersActivate

Spec == Init /\ [][Next]_vars

\* the same requests on the stored appeals, one at a time: a request starts
\* when every earlier one has been answered
AllIdle == \A q \in Slots : req[q] = Idle

NextSeq ==
  \/ \E q \in Slots : Save(q)
  \/ \E q \in Slots : BulkFind(q)
  \/ /\ AllIdle
     /\ \/ ReviewerStatus
        \/ ReviewerNote
        \/ ReviewerDecision
        \/ ReviewerRequestInfo
        \/ AdminAssign
        \/ AdminPriority
        \/ AdminStatus
        \/ AdminNote
        \/ AppealUpdate
        \/ AppealNote
        \/ AppealDecision
        \/ StudentNote
        \/ AdminBulkAssign
        \/ AdminDeleteUser
        \/ UsersDelete
        \/ UsersActivate

SpecSeq == Init /\ [][NextSeq]_vars

\* the deployment whose reviewer router is unnamed/part_003, with the
\* assignment route of the admin router beside it
NextPart003 ==
  \/ \E q \in Slots : Save(q)
  \/ Part003Status
  \/ Part003Note
  \/ Part003Decision
  \/ AdminAssign

SpecPart003 == Init /\ [][NextPart003]_vars

\* the requests one at a time, appeal creation among them, on a store that
\* may reject a write
NextFail ==
  \/ NextSeq
  \/ AllIdle /\ CreateAppeal
  \/ \E q \in Slots : PreSaveProbe(q)
  \/ \E q \in Slots : InsertAppeal(q)
  \/ \E q \in Slots : SaveFails(q)

SpecFail == Init /\ [][NextFail]_vars

\* appeal creation on an empty collection
InitCreate ==
  /\ appeals = [k \in Keys |-> NoAppeal]
  /\ isActive = [u \in Users |-> TRUE]
  /\ req = [q \in Slots |-> Idle]
  /\ nops = 0

NextCreate ==
  \/ CreateAppeal
  \/ \E q \in Slots : PreSaveProbe(q)
  \/ \E q \in Slots : InsertAppeal(q)
  \/ \E q \in Slots : Save(q)

SpecCreate == InitCreate /\ [][NextCreate]_vars


\* ------------------------------------------------------------ properties
IsPrefix(s, t) == Len(s) <= Len(t) /\ SubSeq(t, 1, Len(s)) = s

\* the request in slot q wrote to the store in this step
Writes(q) == req[q] # Idle /\ req[q].pc = "save" /\ req'[q] # req[q]

\* the started request r has been answered
Answered(r) == \A q \in Slots : req[q] = Idle \/ req[q].rid # r

EntryIds(k) == {e.id : e \in Range(appeals[k].timeline)}

\* C1: the appealId values of the stored appeals are pairwise distinct,
\* whatever the interleaving of the creations and whichever of the random
\* candidate, a retried candidate or the timestamp fallback was assigned
C1_DistinctAppealIds ==
  \A j, k \in Keys :
    (Exists(j) /\ Exists(k) /\ j # k) => appeals[j].appealId # appeals[k].appealId

\* two creations raced: one is about to insert the candidate it probed as
\* free, which the other has claimed in the meantime
C1_Witness ==
  \E q \in Slots :
    /\ req[q] # Idle
    /\ req[q].pc = "insert"
    /\ existsAppealId(req[q].appealId)

\* C2: the timeline entry that a request answered with success has stored
\* on an appeal is still in the stored timeline of that appeal after every
\* step of the other requests, so that the timeline holds the entries of
\* both of two interleaved requests
C2_NoLostEntry ==
  [][\A k \in Keys : \A r \in 1..nops :
       (Exists(k) /\ Answered(r) /\ r \in EntryIds(k)) => r \in EntryIds(k)']_vars

\* C3: from one state to the next the stored timeline of an appeal never
\* gets shorter, and the earlier timeline is a prefix of the later one
C3_TimelineAppendOnly ==
  [][\A k \in Keys :
       Exists(k) => /\ Exists(k)'
                    /\ Len(appeals[k].timeline) <= Len(appeals'[k].timeline)
                    /\ IsPrefix(appeals[k].timeline, appeals'[k].timeline)]_vars

HasInternal(notes) == \E n \in notes : n.isInternal

\* C4: no response that renders an appeal to a student (get-by-id, list of
\* own appeals, appeals-of-user listing, the answer to a creation or to a
\* note) contains a note with isInternal = true
C4_NoInternalNoteForStudent ==
  \A u \in Users :
    role(u) = "student" =>
      /\ StudentListCode(u) = 0 => ~HasInternal(StudentList(u))
      /\ AppealListCode(u) = 0 => ~HasInternal(AppealList(u))
      /\ \A k \in Keys :
           /\ StudentGetCode(u, k) = 200 => ~HasInternal(StudentGet(u, k))
           /\ AppealGetCode(u, k) = 200 => ~HasInternal(AppealGet(u, k))
      /\ \A id \in Users :
           UserAppealsCode(u, id) = 200 => ~HasInternal(UserAppeals(u, id))
      /\ \A q \in Slots :
           (req[q] # Idle /\ req[q].user = u) => ~HasInternal(req[q].memNotes)

\* C5: an active reviewer who is not the assignedReviewer of an appeal
\* assigned to someone else is answered 403 by every status update, decision
\* and note entry point (and a request that is answered 403 writes nothing)
C5_OtherReviewerForbidden ==
  \A u \in Users, k \in Keys :
    (role(u) = "reviewer" /\ auth(u) /\ Exists(k)
       /\ appeals[k].assignedReviewer \notin {None, u}) =>
      /\ ReviewerStatusCode(u, k, "under review") = 403
      /\ ReviewerDecisionCode(u, k, "upheld", "text") = 403
      /\ ReviewerNoteCode(u, k, "text") = 403
      /\ AppealDecisionCode(u, k, "upheld", "text") = 403
      /\ AppealNoteCode(u, k, "text", None) = 403
      /\ \A b \in InUpdate :
           b.status \in Statuses => AppealUpdateCode(u, k, b) = 403

\* the transition table
TableNext(s) ==
  CASE s = "submitted" -> {"under review"}
    [] s = "under review" -> {"awaiting information"}
    [] s = "awaiting information" -> {"decision made"}
    [] s = "decision made" -> {"resolved", "rejected"}
    [] OTHER -> {}

\* C6: a write of a non-admin request changes the status of an appeal only
\* to a table successor of its current status, or to resolved together with
\* a withdrawn decision
C6_StatusFollowsTable ==
  [][\A q \in Slots :
       (Writes(q) /\ role(req[q].user) # "admin") =>
         \A k \in Keys :
           (Exists(k) /\ appeals'[k].status # appeals[k].status) =>
             \/ appeals'[k].status \in TableNext(appeals[k].status)
             \/ /\ appeals'[k].status = "resolved"
                /\ appeals'[k].decision.outcome = "withdrawn"]_vars

\* C7: a write of a request whose principal is not an admin leaves the
\* priority, the assignedReviewer and the assignedAdmin of every appeal
\* unchanged
C7_AssignmentByAdminOnly ==
  [][\A q \in Slots :
       (Writes(q) /\ role(req[q].user) # "admin") =>
         \A k \in Keys :
           Exists(k) =>
             /\ appeals'[k].priority = appeals[k].priority
             /\ appeals'[k].assignedReviewer = appeals[k].assignedReviewer
             /\ appeals'[k].assignedAdmin = appeals[k].assignedAdmin]_vars

\* C8: a write of a request whose principal is a student changes neither
\* the status nor the decision of any appeal; all it does is append one
\* public note of that student, or one timeline entry of that student, to
\* an appeal the student owns
C8_StudentWritesOnlyNotes ==
  [][\A q \in Slots :
       (Writes(q) /\ role(req[q].user) = "student") =>
         \A k \in Keys :
           Exists(k) =>
             LET old == appeals[k]
                 new == appeals'[k]
                 u == req[q].user
             IN
             /\ new.status = old.status
             /\ new.decision = old.decision
             /\ \/ new = old
                \/ /\ old.student = u
                   /\ new = [old EXCEPT !.notes = Append(@, Note(u, FALSE, req[q].rid))]
                \/ /\ old.student = u
                   /\ \E e \in Range(new.timeline) :
                        /\ e.by = u
                        /\ new = [old EXCEPT !.timeline = Append(@, e)]]_vars

\* a student's public note and its timeline entry are stored
C8_Witness ==
  \E k \in Keys :
    /\ Exists(k)
    /\ \E n \in Range(appeals[k].notes) :
         /\ role(n.author) = "student"
         /\ \E e \in Range(appeals[k].timeline) :
              e.id = n.id /\ e.action = "Note added"

\* C9: a write of a reviewer's request never turns the status of an appeal
\* into submitted
C9_ReviewerNeverSetsSubmitted ==
  [][\A q \in Slots :
       (Writes(q) /\ role(req[q].user) = "reviewer") =>
         \A k \in Keys :
           (Exists(k) /\ appeals'[k].status = "submitted") =>
             appeals[k].status = "submitted"]_vars

\* C10: an admin who records a decision on a stored appeal is never
\* answered 403, whoever the assignedReviewer is
C10_AdminDecisionNotForbidden ==
  \A u \in Users, k \in Keys :
    (role(u) = "admin" /\ Exists(k)) =>
      AppealDecisionCode(u, k, "upheld", "text") # 403

\* the write that answers the request in slot q (its last pending update)
LastWrite(q) == Writes(q) /\ req'[q] = Idle

\* the request in slot q is the operation op and writes in this step
WritesOf(q, op) == Writes(q) /\ req[q].op = op

Last(s) == s[Len(s)]

\* C11: the status update of an active admin is answered with success for
\* every status of the closed set whatever the current status is, and its
\* write leaves the appeal with the requested status and a timeline that is
\* the earlier timeline plus one "Status updated" entry
C11_AdminStatusFromAnyStatus ==
  [][/\ \A u \in Users, k \in Keys, status \in Statuses :
          (role(u) = "admin" /\ auth(u) /\ Exists(k)) =>
            AdminStatusCode(u, k, status) = 0
     /\ \A q \in Slots :
          WritesOf(q, "adminStatus") =>
            LET r == req[q]
                old == appeals[r.key]
                new == appeals'[r.key]
                status == Head(r.upds).set.status
            IN
            /\ new.status = status
            /\ new.timeline =
                 Append(old.timeline, Entry("Status updated", r.user, status, r.rid))]_vars

\* C12: the write of a decision recorded by a reviewer, through either
\* decision route, sets decision.outcome and decision.reason to the inputs
\* and decidedBy to the caller, sets the status to resolved for the outcome
\* withdrawn and to decision made for every other outcome, and appends
\* exactly one timeline entry
C12_ReviewerDecisionEffect ==
  [][\A q \in Slots :
       (Writes(q) /\ req[q].op \in {"reviewerDecision", "appealDecision"}
          /\ role(req[q].user) = "reviewer") =>
         LET r == req[q]
             old == appeals[r.key]
             new == appeals'[r.key]
             decision == Head(r.upds).set.decision
         IN
         /\ new.decision = decision
         /\ new.decision.decidedBy = r.user
         /\ new.status =
              IF decision.outcome = "withdrawn" THEN "resolved" ELSE "decision made"
         /\ Len(new.timeline) = Len(old.timeline) + 1
         /\ SubSeq(new.timeline, 1, Len(old.timeline)) = old.timeline
         /\ Last(new.timeline).id = r.rid]_vars

\* APL-<year>-<six decimal digits>
WellFormedAppealId(id) ==
  /\ id.prefix = "APL"
  /\ id.year \in InYear
  /\ Len(id.code) = 6
  /\ \A i \in 1..Len(id.code) : id.code[i] \in 0..9

C15_NoAppealWithoutId ==
  \A k \in Keys :
    Exists(k) => /\ appeals[k].appealId # NoId
                 /\ appeals[k].appealId.code # << >>

\* the only creation so far failed in its allocation: nothing is stored
C15_Witness ==
  /\ nops = 1
  /\ \A q \in Slots : req[q] = Idle
  /\ Stored = 0

\* C16: no step changes the appealId or the student of a stored appeal
C16_IdAndStudentImmutable ==
  [][\A k \in Keys :
       Exists(k) => /\ Exists(k)'
                    /\ appeals'[k].appealId = appeals[k].appealId
                    /\ appeals'[k].student = appeals[k].student]_vars

\* an appeal that was assigned by the admin and decided by a reviewer
C16_Witness ==
  \E k \in Keys :
    /\ Exists(k)
    /\ Len(appeals[k].timeline) = 3
    /\ appeals[k].assignedReviewer # None
    /\ appeals[k].decision # NoDecision
    /\ appeals[k].appealId = Filed.appealId
    /\ appeals[k].student = Filed.student

\* C17: every stored note whose author is a student has isInternal = false,
\* and a student's note on an appeal of another student is refused by both
\* note routes, with 400, 401, 403 or 404, whatever its content and
\* visibility (a refused request writes nothing)
C17_StudentNotesPublicAndOwn ==
  /\ \A k \in Keys :
       Exists(k) =>
         \A n \in Range(appeals[k].notes) :
           role(n.author) = "student" => ~n.isInternal
  /\ \A u \in Users, k \in Keys :
       (role(u) = "student" /\ Exists(k) /\ appeals[k].student # u) =>
         \A content \in InNotes, isInternal \in InInternal :
           /\ StudentNoteCode(u, k, content) \in {400, 401, 404}
           /\ AppealNoteCode(u, k, content, isInternal) \in {400, 401, 403}

\* an appeal carries a note of its student next to an internal note
C17_Witness ==
  \E k \in Keys :
    /\ Exists(k)
    /\ \E n, m \in Range(appeals[k].notes) :
         /\ n.author = appeals[k].student
         /\ ~n.isInternal
         /\ m.isInternal

\* the elements of s whose _id is id
WithIdOf(s, id) == {i \in DOMAIN s : s[i].id = id}

\* C18: a note added by an admin or a reviewer, through any note route, has
\* the isInternal that was supplied and true when none was; each write of
\* the request leaves the earlier notes and timeline entries in place and
\* appends at most its own note and its own entry, and when the request is
\* answered the notes end with exactly one note of the request and the
\* timeline holds exactly one entry of it
C18_AddNoteEffect ==
  [][\A q \in Slots :
       (Writes(q) /\ req[q].op \in {"reviewerNote", "adminNote", "appealNote"}
          /\ role(req[q].user) # "student") =>
         LET r == req[q]
             old == appeals[r.key]
             new == appeals'[r.key]
         IN
         /\ \/ new.notes = old.notes
            \/ /\ Len(new.notes) = Len(old.notes) + 1
               /\ IsPrefix(old.notes, new.notes)
               /\ Last(new.notes).id = r.rid
               /\ Last(new.notes).isInternal = (r.body \in {None, "bool:true", "true"})
         /\ \/ new.timeline = old.timeline
            \/ /\ Len(new.timeline) = Len(old.timeline) + 1
               /\ IsPrefix(old.timeline, new.timeline)
               /\ Last(new.timeline).id = r.rid
         /\ req'[q] = Idle =>
              /\ Cardinality(WithIdOf(new.notes, r.rid)) = 1
              /\ Cardinality(WithIdOf(new.timeline, r.rid)) = 1]_vars

\* C19: the write of an assign leaves every field of {assignedReviewer,
\* assignedAdmin, priority} that the body omits, the status, the decision
\* and the notes of the appeal unchanged, and appends exactly one timeline
\* entry, "Appeal assigned"
C19_AssignFrame ==
  [][\A q \in Slots :
       WritesOf(q, "adminAssign") =>
         LET r == req[q]
             old == appeals[r.key]
             new == appeals'[r.key]
         IN
         /\ \A f \in {"assignedReviewer", "assignedAdmin", "priority"} :
              r.body[f] = None => new[f] = old[f]
         /\ new.status = old.status
         /\ new.decision = old.decision
         /\ new.notes = old.notes
         /\ new.timeline = Append(old.timeline, Entry("Appeal assigned", r.user, None, r.rid))]_vars

\* C20 as claimed: an assign of an active admin that supplies null or the
\* empty string for the reviewer of an assigned appeal is answered with
\* success
C20_NullClearsAssignment ==
  \A u \in Users, k \in Keys, v \in {"null", ""} :
    (role(u) = "admin" /\ auth(u) /\ Exists(k) /\ appeals[k].assignedReviewer # None) =>
      AdminAssignCode(u, k, v, None, None) = 0

\* C20, amended: an assign of an active admin that supplies null or the
\* empty string for the reviewer or for the admin is answered 400 whatever
\* else it supplies (401 is the answer to an inactive one), and
\* no write of an assign leaves an assigned appeal without its reviewer or
\* without its admin
C20_NullAssignmentRejected ==
  [][/\ \A u \in Users, k \in Keys, v \in {"null", ""},
          other \in {None, "r1", "a1"}, priority \in {None, "high"} :
          (role(u) = "admin" /\ auth(u) /\ Exists(k)) =>
            /\ AdminAssignCode(u, k, v, other, priority) = 400
            /\ AdminAssignCode(u, k, other, v, priority) = 400
     /\ \A q \in Slots :
          WritesOf(q, "adminAssign") =>
            LET old == appeals[req[q].key]
                new == appeals'[req[q].key]
            IN
            /\ old.assignedReviewer # None => new.assignedReviewer \in Users
            /\ old.assignedAdmin # None => new.assignedAdmin \in Users]_vars

\* an assign is about to write to an appeal that has a reviewer and an admin
C20_Witness ==
  \E q \in Slots :
    /\ req[q] # Idle
    /\ req[q].op = "adminAssign"
    /\ req[q].pc = "save"
    /\ appeals[req[q].key].assignedReviewer = "r1"
    /\ appeals[req[q].key].assignedAdmin = "a1"

\* C21: the response of a bulk assignment lists every appealId of the
\* request in exactly one of its results and its errors, the stored appeals
\* in the results and the unknown ones in the errors, whatever the position
\* of the unknown ones in the array; each write of the loop gives the
\* appeal it processes the supplied fields and exactly one "Bulk assignment"
\* entry of the request, as the last of its timeline
C21_BulkAssignPartialFailure ==
  [][\A q \in Slots :
       (req[q] # Idle /\ req[q].op = "adminBulkAssign" /\ req'[q] # req[q]) =>
         LET r == req[q]
             ids == r.body.appealIds
         IN
         /\ req'[q] = Idle =>
              LET a == BulkAnswer(r) IN
              /\ Len(a.results) + Len(a.errors) = Len(ids)
              /\ \A i \in DOMAIN ids :
                   /\ (ids[i] \in Range(a.results)) # (ids[i] \in Range(a.errors))
                   /\ (ids[i] \in Range(a.results)) = Exists(ids[i])
         /\ Writes(q) =>
              LET old == appeals[r.key]
                  new == appeals'[r.key]
              IN
              /\ \A f \in {"assignedReviewer", "assignedAdmin", "priority"} :
                   new[f] = IF r.body[f] = None THEN old[f] ELSE r.body[f]
              /\ Cardinality(WithIdOf(new.timeline, r.rid)) = 1
              /\ Last(new.timeline) = Entry("Bulk assignment", r.user, None, r.rid)
              /\ \A k \in Keys \ {r.key} : appeals'[k] = appeals[k]]_vars

\* a bulk assignment is about to update an appeal after it has reported
\* another appealId of its array as a failure
C21_Witness ==
  \E q \in Slots :
    /\ req[q] # Idle
    /\ req[q].op = "adminBulkAssign"
    /\ req[q].pc = "save"
    /\ req[q].errors # << >>
    /\ req[q].body.assignedReviewer = "r1"

\* a request that every handler would accept from an active principal of
\* the right role: the status codes it is answered with when u sends it
CodesFor(u, k) ==
  {CreateAppealCode(u, "bool:true", "bool:true", "bool:true", studentIdOf(u)),
   StudentNoteCode(u, k, "text"), StudentListCode(u), StudentGetCode(u, k),
   AppealGetCode(u, k), AppealListCode(u), UserAppealsCode(u, u),
   AppealNoteCode(u, k, "text", None), AppealDecisionCode(u, k, "upheld", "text"),
   AppealUpdateCode(u, k, [status |-> "under review", priority |-> None,
                           assignedReviewer |-> None, assignedAdmin |-> None]),
   ReviewerStatusCode(u, k, "under review"), ReviewerNoteCode(u, k, "text"),
   ReviewerDecisionCode(u, k, "upheld", "text"), ReviewerRequestInfoCode(u, k, "text"),
   AdminAssignCode(u, k, "r1", None, None), AdminPriorityCode(u, k, "high"),
   AdminStatusCode(u, k, "under review"), AdminNoteCode(u, k, "text"),
   AdminBulkAssignCode(u, << k >>, "r1", None, None),
   AdminDeleteUserCode(u, "s2"), UsersDeleteCode(u, "s2"), UsersActivateCode(u, "s2")}

\* C22: a principal whose isActive is false is answered 401 by every route,
\* before the role gate, the validators and the handler; no request of such
\* a principal is started, and an appeal changes only by the write of a
\* request that was started
C22_InactivePrincipalRejected ==
  [][/\ \A u \in Users, k \in Keys : ~isActive[u] => CodesFor(u, k) = {401}
     /\ \A q \in Slots :
          (req[q] = Idle /\ req'[q] # Idle) => isActive[req'[q].user]
     /\ appeals' # appeals => \E q \in Slots : req[q] # Idle /\ req'[q] # req[q]]_vars

\* the reviewer assigned to an appeal has been deactivated
C22_Witness ==
  \E k \in Keys :
    /\ Exists(k)
    /\ appeals[k].assignedReviewer = "r1"
    /\ ~isActive["r1"]

\* C23: an appeal that is stored is stored after every step, whatever its
\* status and whatever the step: the only DELETE routes deactivate a user
C23_NoDeletionPath ==
  [][/\ \A k \in Keys : appeals[k] # NoAppeal => appeals'[k] # NoAppeal
     /\ Stored' >= Stored]_vars

\* a resolved appeal is stored after its student was deactivated
C23_Witness ==
  \E k \in Keys :
    /\ Exists(k)
    /\ appeals[k].status = "resolved"
    /\ ~isActive[appeals[k].student]

\* the appeals whose deadline this step sets, changes or removes
DeadlineChanged ==
  {k \in Keys : Exists(k) /\ appeals'[k].deadline # appeals[k].deadline}

\* C24: a write that sets, changes or removes the deadline of an appeal is
\* a write of an admin's request, and it leaves the status of the appeal
\* as it was
C24_DeadlineByAdminOnly ==
  [][\A q \in Slots :
       Writes(q) =>
         \A k \in DeadlineChanged :
           /\ role(req[q].user) = "admin"
           /\ appeals'[k].status = appeals[k].status]_vars

\* C25: no write stores a deadline that is not strictly in the future: a
\* request with such a date is answered with a validation error and writes
\* nothing
C25_PastDeadlineRejected ==
  [][\A k \in DeadlineChanged : appeals'[k].deadline > 0]_vars

\* the timeline entries of s that record a decision
DecisionEntries(s) == {i \in DOMAIN s : s[i].action = "Decision made"}

\* C26: on an appeal that has a decision, both decision routes answer the
\* caller they would answer on an undecided one with success again; the
\* write of the later decision replaces the stored outcome, reason and
\* decidedBy by its own and appends one more "Decision made" entry after
\* the entries of the earlier decisions
C26_DecisionOverwrites ==
  [][/\ \A u \in Users, k \in Keys :
          (/\ Exists(k) /\ appeals[k].decision # NoDecision
           /\ auth(u) /\ ~AssignedToOther(appeals[k], u)) =>
            /\ requireReviewer(u) => ReviewerDecisionCode(u, k, "upheld", "text") = 0
            /\ requireAdminOrReviewer(u) => AppealDecisionCode(u, k, "upheld", "text") = 0
     /\ \A q \in Slots :
          (Writes(q) /\ req[q].op \in {"reviewerDecision", "appealDecision"}
             /\ appeals[req[q].key].decision # NoDecision) =>
            LET r == req[q]
                old == appeals[r.key]
                new == appeals'[r.key]
            IN
            /\ new.decision = Head(r.upds).set.decision
            /\ new.decision.decidedBy = r.user
            /\ IsPrefix(old.timeline, new.timeline)
            /\ DecisionEntries(new.timeline) =
                 DecisionEntries(old.timeline) \cup {Len(new.timeline)}
            /\ Len(new.timeline) = Len(old.timeline) + 1
            /\ Last(new.timeline).id = r.rid]_vars

\* two decisions were recorded on an appeal, one after the other: the
\* timeline holds an entry of each and the stored decision is the second
C26_Witness ==
  \E k \in Keys :
    /\ Exists(k)
    /\ \A q \in Slots : req[q] = Idle
    /\ Cardinality(DecisionEntries(appeals[k].timeline)) = 2
    /\ appeals[k].timeline[2].by = "r1"
    /\ appeals[k].decision.decidedBy = "r2"
    /\ appeals[k].decision.outcome = "withdrawn"

C28_NoPartialApplication ==
  \A k \in Keys :
    Exists(k) =>
      /\ appeals[k].timeline # << >>
      /\ \A n \in Range(appeals[k].notes) :
           \E e \in Range(appeals[k].timeline) : e.id = n.id

\* the timeline a findByIdAndUpdate handler read: what it sets, less the
\* entry it added
ReadTimeline(r) ==
  LET t == Head(r.upds).set.timeline IN SubSeq(t, 1, Len(t) - 1)

\* C29: a write built on a timeline that is no longer the stored one (an
\* other write to the appeal was committed after the read) does not reach
\* the store
C29_StaleWriteRejected ==
  [][\A q \in Slots :
       (/\ Writes(q)
        /\ "timeline" \in DOMAIN Head(req[q].upds).set
        /\ ReadTimeline(req[q]) # appeals[req[q].key].timeline) =>
         appeals' = appeals]_vars

\* some stored appeal has the appealId c
Stores(c) == \E k \in Keys : appeals[k] # NoAppeal /\ appeals[k].appealId = c

\* the fallback values: the year of the creation and the last six digits of
\* the clock
Fallbacks(year) == {candidate(year, SubSeq(now, Len(now) - 5, Len(now))) : now \in InNow}

\* C30: a creation that is allocating has made fewer than 5 probes; each
\* probe either finds its candidate unused and assigns it, or collides
\* with a stored appealId; after the fifth collision the timestamp fallback
\* is assigned in the same step, without a probe of it, and the creation
\* goes on to its insert
C30_AllocationTerminates ==
  [][\A q \in Slots :
       (req[q] # Idle /\ req[q].pc = "probe" /\ req'[q] # req[q]) =>
         LET r == req[q]
             n == req'[q]
             candidates == {candidate(r.year, nano(c)) : c \in Codes}
         IN
         /\ r.i < MaxAttempts
         /\ \/ /\ n # Idle /\ n.pc = "insert" /\ n.i = r.i
               /\ n.appealId \in candidates
               /\ ~Stores(n.appealId)
            \/ /\ n # Idle /\ n.pc = "probe" /\ n.i = r.i + 1
               /\ n.i < MaxAttempts
               /\ n.appealId = NoId
               /\ \E c \in candidates : Stores(c)
            \/ /\ n # Idle /\ n.pc = "insert" /\ n.i = MaxAttempts
               /\ r.i = MaxAttempts - 1
               /\ n.appealId \in Fallbacks(r.year)
               /\ \E c \in candidates : Stores(c)
            \* the exists() query itself failed: no appealId, no insert
            \/ n = Idle]_vars

\* a creation collided five times and goes to its insert with the fallback
C30_Witness ==
  \E q \in Slots :
    /\ req[q] # Idle
    /\ req[q].op = "createAppeal"
    /\ req[q].pc = "insert"
    /\ req[q].i = MaxAttempts
    /\ req[q].appealId \in Fallbacks(req[q].year)

\* C31: in each build of the reviewer router the status update, the note and
\* the decision of a reviewer on a stored appeal, each with a valid body,
\* are all three answered 403 or none of them is, whether the appeal is
\* assigned to the reviewer, to another reviewer or to nobody
C31_OneAssignmentRule ==
  \A u \in Users, k \in Keys :
    (role(u) = "reviewer" /\ auth(u) /\ Exists(k)) =>
      /\ LET codes == {ReviewerStatusCode(u, k, "under review"),
                       ReviewerNoteCode(u, k, "text"),
                       ReviewerDecisionCode(u, k, "upheld", "text")}
         IN codes = {403} \/ 403 \notin codes
      /\ LET codes == {Part003StatusCode(u, k, "under review"),
                       Part003NoteCode(u, k, "text"),
                       Part003DecisionCode(u, k, "upheld", "text")}
         IN codes = {403} \/ 403 \notin codes

\* the status update of request r carries a note
CarriesNote(r) ==
  "notes" \in (DOMAIN Head(r.upds).set) \cup (DOMAIN Head(r.upds).push)

\* C32: the write of a status update, of a reviewer or of an admin, appends
\* to the stored notes exactly one note, internal and of the caller, when
\* the request carries a note and leaves the stored notes as they are when
\* it carries none or an empty one; in both cases it appends exactly one
\* entry to the stored timeline
C32_TransitionNote ==
  [][\A q \in Slots :
       (Writes(q) /\ req[q].op \in {"reviewerStatus", "adminStatus"}) =>
         LET r == req[q]
             old == appeals[r.key]
             new == appeals'[r.key]
         IN
         /\ new.notes = IF CarriesNote(r)
                          THEN Append(old.notes, Note(r.user, TRUE, r.rid))
                          ELSE old.notes
         /\ Len(new.timeline) = Len(old.timeline) + 1
         /\ IsPrefix(old.timeline, new.timeline)
         /\ Last(new.timeline).id = r.rid]_vars

\* C33: a write of a request of a reviewer (status update, decision,
\* request for information) to an appeal whose stored status is resolved or
\* rejected leaves the status as it is
C33_TerminalForReviewer ==
  [][\A q \in Slots :
       (/\ Writes(q)
        /\ role(req[q].user) = "reviewer"
        /\ appeals[req[q].key].status \in {"resolved", "rejected"}) =>
         appeals'[req[q].key].status = appeals[req[q].key].status]_vars

\* C34 as stated: a stored appeal whose status is "decision made" carries a
\* decision
C34_DecisionMadeHasDecision ==
  \A k \in Keys :
    (Exists(k) /\ appeals[k].status = "decision made") =>
      appeals[k].decision.outcome # None

\* C34, amended: the write of a decision recording stores the decision, with
\* one of the four outcomes and the caller as decidedBy, and a stored
\* decision is never cleared by a later write
C34_DecisionRecorded ==
  [][/\ \A q \in Slots :
          (Writes(q) /\ req[q].op \in {"reviewerDecision", "appealDecision"}) =>
            /\ appeals'[req[q].key].decision.outcome \in Outcomes
            /\ appeals'[req[q].key].decision.decidedBy = req[q].user
     /\ \A k \in Keys :
          (Exists(k) /\ appeals[k].decision # NoDecision) =>
            appeals'[k].decision # NoDecision]_vars

\* a decision was recorded and a later status update has moved the appeal on
C34_Witness ==
  /\ AllIdle
  /\ appeals[1].decision.outcome \in Outcomes
  /\ appeals[1].status = "under review"
  /\ Len(appeals[1].timeline) = 3

\* the entries of a timeline that record a target status
StatusEntries(s) == {i \in DOMAIN s : s[i].st # None}

\* the status a timeline records: the target of its most recent status
\* entry, and the status of the creation when it holds none
RecordedStatus(s) ==
  IF StatusEntries(s) = {} THEN "submitted"
  ELSE s[CHOOSE i \in StatusEntries(s) : \A j \in StatusEntries(s) : j <= i].st

\* C35: in every reachable state the status of a stored appeal is the target
\* status of the most recent status-changing entry of its stored timeline
\* (submitted while the timeline holds none), whatever the interleaving of
\* the status updates with the other writers of the appeal
C35_StatusMatchesTimeline ==
  \A k \in Keys :
    Exists(k) => appeals[k].status = RecordedStatus(appeals[k].timeline)

\* C36: from one state to the next the stored notes of an appeal only grow:
\* the earlier notes are a prefix of the later ones, whatever the
\* interleaving of the requests
C36_NotesOnlyGrow ==
  [][\A k \in Keys :
       Exists(k) => IsPrefix(appeals[k].notes, appeals'[k].notes)]_vars

\* C37: when the write of a reviewer's status update or decision reaches the
\* store, the stored appeal is not assigned to another reviewer: the
\* assignment check the handler made on the appeal it loaded still passes on
\* the appeal it writes to, also when an admin has reassigned the appeal
\* in between
C37_AssignedAtCommit ==
  [][\A q \in Slots :
       (/\ Writes(q)
        /\ role(req[q].user) = "reviewer"
        /\ req[q].op \in {"reviewerStatus", "reviewerDecision", "appealDecision"}) =>
         ~AssignedToOther(appeals[req[q].key], req[q].user)]_vars

NoteIds(k) == {n.id : n \in Range(appeals[k].notes)}

\* the request in slot q is answered with an error in this step: its
\* handler ends without a write (the bulk assignment answers 200 with its
\* list of errors)
AnswersError(q) ==
  /\ req[q] # Idle
  /\ req[q].op # "adminBulkAssign"
  /\ req'[q] = Idle
  /\ appeals' = appeals

\* C38: when a request is answered with an error the store holds nothing of
\* it: no appeal it has inserted, no note and no timeline entry it has
\* written
C38_ErrorLeavesNoTrace ==
  [][\A q \in Slots :
       AnswersError(q) =>
         /\ req[q].op = "createAppeal" => req[q].key = 0
         /\ \A k \in Keys :
              Exists(k) => /\ req[q].rid \notin EntryIds(k)
                           /\ req[q].rid \notin NoteIds(k)]_vars

\* C39: while a user is deactivated no request of that user starts, so the
\* only requests of the user that write to an appeal are those that had
\* passed auth before; the deactivation itself touches neither an appeal nor
\* a request in flight, and the pending write of a request in flight of a
\* deactivated user still reaches the store
C39_DeactivationStopsNewRequests ==
  [][/\ \A u \in Users : \A q \in Slots :
          (~isActive[u] /\ req'[q] # Idle /\ req'[q].user = u) =>
            (req[q] # Idle /\ req[q].rid = req'[q].rid)
     /\ isActive' # isActive => (req' = req /\ appeals' = appeals)
     /\ \A q \in Slots :
          (req[q] # Idle /\ req[q].pc = "save" /\ ~isActive[req[q].user]) =>
            ENABLED Save(q)]_vars

\* a reviewer was deactivated after the request had passed auth and before
\* the write of the request has reached the store
C39_Witness ==
  \E q \in Slots :
    /\ req[q] # Idle
    /\ req[q].pc = "save"
    /\ req[q].user = "r1"
    /\ ~isActive["r1"]

====
